---- MODULE Spec2Model ----
(***************************************************************************)
(* Model of jonathan_converter: the directory conversion pipeline of       *)
(* src/lib.rs (convert_dir, convert_pcx, convert_txt, run) and the text    *)
(* decoder of src/main.rs.                                                 *)
(*                                                                         *)
(* A file name is a sequence of one-character strings, a path a sequence   *)
(* of components (file names).  An Option is a sequence of length 0 or 1,  *)
(* a Result a record [ok, val].                                            *)
(***************************************************************************)
EXTENDS Integers, Sequences, FiniteSets, TLC

VARIABLES
    windows,      \* cfg(windows) of the build: selects LINE_ENDING
    pc,           \* position of run: "start", "gfx", "txt", "done"
    runResult,    \* result of run: "none", "Ok", "Err"
    runLog,       \* the job headlines run has printed, in order
    inDir,        \* per job: the input directory [exists, entries]
    outDir,       \* per job: the output directory "absent", "blocked", "present"
    outFiles,     \* per job: the files of the output directory, path -> file
    phase,        \* per job: position of convert_dir
    pos,          \* per job: index of the next entry of dir_reader
    files_to_convert, \* per job: the (input, output) pairs built so far
    wpc,          \* per job: per pair, the position of its conversion
    wdata,        \* per job: per pair, the decoded contents held by its worker
    invoked,      \* per job: per pair, the number of conversion_fn calls
    progress,     \* per job: the number of "Converting ..." lines printed
    reported,     \* per job: the pairs whose failure was printed
    creators,     \* per job: output path -> the pairs that created/truncated it
    mkdirs,       \* per job: the number of DirBuilder::create calls
    result,       \* per job: the result of convert_dir: "none", "Ok", "Err"
    p_in,         \* path specification: the input path
    p_out,        \* path specification: the output directory
    p_ext,        \* path specification: the output extension
    p_res,        \* path specification: the result of to_output_filename
    p_done,       \* path specification: to_output_filename has returned
    d_in,         \* decoder specification: the input bytes
    d_lib,        \* decoder specification: the result of lib.rs convert_txt
    d_main,       \* decoder specification: the result of main.rs convert_txt
    d_done        \* decoder specification: which decoders have returned

runVars == <<pc, runResult, runLog, inDir, outDir, outFiles, phase, pos,
             files_to_convert, wpc, wdata, invoked, progress, reported,
             creators, mkdirs, result>>
pathVars == <<p_in, p_out, p_ext, p_res, p_done>>
decVars == <<d_in, d_lib, d_main, d_done>>
vars == <<windows, runVars, pathVars, decVars>>

----------------------------------------------------------------------------
(* Bounds *)

\* the longest directory listing of the run specification
MaxEntries == 2
\* the longest byte prefix of a decoder input
MaxTxtLen == 2
\* the longest file name of the path specification
MaxNameLen == 5

----------------------------------------------------------------------------
(* Option and Result *)

None == <<>>
Some(x) == <<x>>
Ok(x) == [ok |-> TRUE, val |-> x]
Err(x) == [ok |-> FALSE, val |-> x]

----------------------------------------------------------------------------
(* Paths *)

GFX_INPUT_DIR == <<"G", "R", "A", "F", "I", "K">>
GFX_OUTPUT_DIR == <<"G", "R", "A", "F", "I", "K", "_", "P", "N", "G">>
TEXT_INPUT_DIR == <<"T", "E", "X", "T">>
TEXT_OUTPUT_DIR == <<"T", "E", "X", "T", "_", "T", "X", "T">>

PCX == <<"P", "C", "X">>
PNG == <<"P", "N", "G">>
TCT == <<"T", "C", "T">>
TXT == <<"T", "X", "T">>

\* the components of a path that are no file name
CurDir == <<".">>
ParentDir == <<".", ".">>
RootDir == <<"/">>

\* char::to_uppercase on the letters the model uses
UpperChar(c) ==
    CASE c = "p" -> "P"
      [] c = "c" -> "C"
      [] c = "x" -> "X"
      [] c = "t" -> "T"
      [] c = "n" -> "N"
      [] c = "g" -> "G"
      [] OTHER -> c

to_uppercase(s) == [i \in 1..Len(s) |-> UpperChar(s[i])]

\* Path::file_name: the last component when it is a normal one
file_name(path) ==
    IF path = <<>> THEN None
    ELSE IF path[Len(path)] \in {CurDir, ParentDir, RootDir} THEN None
    ELSE Some(path[Len(path)])

\* the index of the last "." of a file name, 0 when it has none
LastDot(name) ==
    LET dots == {i \in 1..Len(name) : name[i] = "."}
    IN  IF dots = {} THEN 0 ELSE CHOOSE i \in dots : \A k \in dots : k <= i

\* std's split of a file name at its last dot: <<stem, extension>>
rsplit_file_at_dot(name) ==
    LET d == LastDot(name)
    IN  IF name = ParentDir \/ d = 0 \/ d = 1
        THEN <<Some(name), None>>
        ELSE <<Some(SubSeq(name, 1, d - 1)), Some(SubSeq(name, d + 1, Len(name)))>>

file_stem(path) ==
    IF file_name(path) = None THEN None
    ELSE rsplit_file_at_dot(file_name(path)[1])[1]

extension(path) ==
    IF file_name(path) = None THEN None
    ELSE rsplit_file_at_dot(file_name(path)[1])[2]

\* PathBuf::push of a relative component; a "." after the first component
\* is no component of the path
push(path, component) ==
    IF component = CurDir /\ path # <<>> THEN path ELSE Append(path, component)

\* PathBuf::set_extension: cut the file name back to its stem, add "." ext
set_extension(path, ext) ==
    IF file_stem(path) = None THEN path
    ELSE LET stem == file_stem(path)[1]
             name == IF ext = <<>> THEN stem ELSE stem \o <<".">> \o ext
         IN  SubSeq(path, 1, Len(path) - 1) \o <<name>>

to_output_filename(input_path, output_path, output_extension) ==
    IF file_stem(input_path) = None
    THEN Err(<<>>)
    ELSE Ok(set_extension(push(output_path, file_stem(input_path)[1]),
                          output_extension))

\* variant of is_file_with_extension that compares the extension as it is
\* spelled
is_file_with_extension_exact(path, kind, extension_upper) ==
    IF kind = "file"
    THEN /\ extension(path) # None
         /\ extension(path)[1] = extension_upper
    ELSE FALSE

\* is_file_with_extension on a directory entry: path.is_file() is the
\* entry's kind in the file system
is_file_with_extension(path, kind, extension_upper) ==
    IF kind = "file"
    THEN /\ extension(path) # None
         /\ to_uppercase(extension(path)[1]) = extension_upper
    ELSE FALSE

----------------------------------------------------------------------------
(* The text decoders *)

BOM == 65279

LINE_ENDING(win) == IF win THEN <<13, 10>> ELSE <<10>>

\* one arm of the match of main.rs convert_txt
txt_char_main(c, win) ==
    CASE c = 10 -> Ok(LINE_ENDING(win))
      [] c \in 11..137 -> Ok(<<c - 10>>)
      [] c = 139 -> Ok(<<252>>)
      [] c = 164 -> Ok(<<220>>)
      [] c = 142 -> Ok(<<228>>)
      [] c = 152 -> Ok(<<196>>)
      [] c = 158 -> Ok(<<246>>)
      [] c = 163 -> Ok(<<214>>)
      [] c = 183 -> Ok(<<244>>)
      [] c = 235 -> Ok(<<223>>)
      [] OTHER -> Err(<<c>>)

\* variant of txt_char whose shifted range ends at 137
txt_char_upto137(c, win) == txt_char_main(c, win)

\* one arm of the match of lib.rs convert_txt: Ok(chars) or Err(byte)
txt_char(c, win) ==
    CASE c = 10 -> Ok(LINE_ENDING(win))
      [] c \in 11..136 -> Ok(<<c - 10>>)
      [] c = 139 -> Ok(<<252>>)
      [] c = 164 -> Ok(<<220>>)
      [] c = 142 -> Ok(<<228>>)
      [] c = 152 -> Ok(<<196>>)
      [] c = 158 -> Ok(<<246>>)
      [] c = 163 -> Ok(<<214>>)
      [] c = 183 -> Ok(<<244>>)
      [] c = 235 -> Ok(<<223>>)
      [] OTHER -> Err(<<c>>)

\* the loop of lib.rs convert_txt from byte i on, s the string so far
RECURSIVE txt_loop(_, _, _, _)
txt_loop(file_contents, i, s, win) ==
    IF i > Len(file_contents) THEN Ok(s)
    ELSE LET r == txt_char(file_contents[i], win)
         IN  IF r.ok THEN txt_loop(file_contents, i + 1, s \o r.val, win)
             ELSE r

\* the loop of main.rs convert_txt
RECURSIVE txt_loop_main(_, _, _, _)
txt_loop_main(file_contents, i, s, win) ==
    IF i > Len(file_contents) THEN Ok(s)
    ELSE LET r == txt_char_main(file_contents[i], win)
         IN  IF r.ok THEN txt_loop_main(file_contents, i + 1, s \o r.val, win)
             ELSE r

\* converted_file_contents of lib.rs convert_txt
decode_txt(file_contents, win) == txt_loop(file_contents, 1, <<BOM>>, win)

\* converted_file_contents of main.rs convert_txt
decode_txt_main(file_contents, win) ==
    txt_loop_main(file_contents, 1, <<BOM>>, win)

----------------------------------------------------------------------------
(* The jobs *)

Jobs == {"gfx", "txt"}

\* root_dir: the default "." of the command line
root_dir == <<CurDir>>

\* the arguments convert_graphics passes to convert_dir
convert_graphics ==
    [input_path |-> push(root_dir, GFX_INPUT_DIR),
     input_extension |-> PCX,
     output_path |-> push(root_dir, GFX_OUTPUT_DIR),
     output_extension |-> PNG]

\* the arguments convert_texts passes to convert_dir
convert_texts ==
    [input_path |-> push(root_dir, TEXT_INPUT_DIR),
     input_extension |-> TCT,
     output_path |-> push(root_dir, TEXT_OUTPUT_DIR),
     output_extension |-> TXT]

Job(j) == IF j = "gfx" THEN convert_graphics ELSE convert_texts

----------------------------------------------------------------------------
(* The file system the jobs find *)

File(name) == [name |-> name, kind |-> "file"]
Dir(name) == [name |-> name, kind |-> "dir"]
\* a directory entry whose read fails
BadEntry == [name |-> <<>>, kind |-> "err"]

GfxEntries ==
    { File(<<"A", ".", "P", "C", "X">>),
      File(<<"A", ".", "p", "c", "x">>),
      File(<<"A", ".", "1", ".", "P", "C", "X">>),
      File(<<"R", "E", "A", "D", "M", "E">>),
      Dir(<<"S", "U", "B", ".", "P", "C", "X">>),
      BadEntry }

TxtEntries ==
    { File(<<"T", ".", "T", "C", "T">>),
      File(<<"N", ".", "t", "c", "t">>),
      BadEntry }

Entries(j) == IF j = "gfx" THEN GfxEntries ELSE TxtEntries

\* the listings of a directory: its entries in enumeration order, names
\* distinct
Listings(j) ==
    { s \in UNION { [1..n -> Entries(j)] : n \in 0..MaxEntries } :
        \A a, b \in 1..Len(s) : a # b => s[a].name # s[b].name }

\* the input directory read_dir finds: missing, or one of the listings
InputDirs(j) ==
    { [exists |-> FALSE, entries |-> <<>>] }
    \cup { [exists |-> TRUE, entries |-> s] : s \in Listings(j) }

\* the output directory: absent, absent where none can be created, present
OutputDirs == {"absent", "blocked", "present"}

\* a file of the output directory: by = 0 is a file of an earlier run
OldFile == [by |-> 0, data |-> <<>>, complete |-> TRUE]
NoFiles == [p \in {} |-> OldFile]

\* an output directory that is present holds one file of an earlier run
OldName(j) ==
    IF j = "gfx" THEN <<"A", ".", "P", "N", "G">> ELSE <<"T", ".", "T", "X", "T">>

FilesOf(j, o) ==
    IF o = "present"
    THEN [p \in {push(Job(j).output_path, OldName(j))} |-> OldFile]
    ELSE NoFiles

\* the contents read_file_contents finds in a PCX file
PcxContents ==
    { [readable |-> r, class |-> c] :
        r \in BOOLEAN,
        c \in {"too_small", "unparsable", "not_paletted", "row_error",
               "palette_error", "valid"} }

\* the contents read_file_contents finds in a TCT file
TxtContents ==
    { [readable |-> r, bytes |-> b] :
        r \in BOOLEAN,
        b \in { <<>>, <<82, 10, 139>>, <<82, 75, 255>>, <<137>> } }

Contents(j) == IF j = "gfx" THEN PcxContents ELSE TxtContents

----------------------------------------------------------------------------
(* The conversion functions, up to the creation of the output file *)

\* convert_pcx from read_file_contents to palette_data: Ok(image) or Err
pcx_decode(content) ==
    IF ~content.readable THEN Err(<<"read">>)
    ELSE IF content.class = "too_small" THEN Err(<<"too_small">>)
    ELSE IF content.class = "unparsable" THEN Err(<<"reader">>)
    ELSE IF content.class = "not_paletted" THEN Err(<<"palette_length">>)
    ELSE IF content.class = "row_error" THEN Err(<<"next_row_paletted">>)
    ELSE IF content.class = "palette_error" THEN Err(<<"read_palette">>)
    ELSE Ok(<<0, 1, 2, 3>>)

\* convert_txt from read_file_contents to converted_file_contents
txt_decode(content) ==
    IF ~content.readable THEN Err(<<0>>)
    ELSE decode_txt(content.bytes, windows)

conversion_decode(j, content) ==
    IF j = "gfx" THEN pcx_decode(content) ELSE txt_decode(content)

----------------------------------------------------------------------------
(* The run specification: run, convert_dir and the conversions *)

\* the run, before it has started
RunIdle ==
    /\ pc = "start"
    /\ runResult = "none"
    /\ runLog = <<>>
    /\ inDir = [j \in Jobs |-> [exists |-> FALSE, entries |-> <<>>]]
    /\ outDir = [j \in Jobs |-> "absent"]
    /\ outFiles = [j \in Jobs |-> NoFiles]
    /\ phase = [j \in Jobs |-> "idle"]
    /\ pos = [j \in Jobs |-> 1]
    /\ files_to_convert = [j \in Jobs |-> <<>>]
    /\ wpc = [j \in Jobs |-> <<>>]
    /\ wdata = [j \in Jobs |-> <<>>]
    /\ invoked = [j \in Jobs |-> <<>>]
    /\ progress = [j \in Jobs |-> 0]
    /\ reported = [j \in Jobs |-> {}]
    /\ creators = [j \in Jobs |-> [p \in {} |-> {}]]
    /\ mkdirs = [j \in Jobs |-> 0]
    /\ result = [j \in Jobs |-> "none"]

Init ==
    /\ windows = FALSE
    /\ RunIdle
    /\ p_in = <<>> /\ p_out = <<>> /\ p_ext = <<>>
    /\ p_res = Err(<<>>) /\ p_done = FALSE
    /\ d_in = <<>> /\ d_lib = Err(<<>>) /\ d_main = Err(<<>>) /\ d_done = {}

\* run: the headline, then convert_graphics
RunGraphics ==
    /\ pc = "start"
    /\ pc' = "gfx"
    /\ runLog' = Append(runLog, "Converting graphics ...")
    /\ phase' = [phase EXCEPT !["gfx"] = "read_dir"]
    /\ UNCHANGED <<windows, runResult, inDir, outDir, outFiles, pos,
                   files_to_convert, wpc, wdata, invoked, progress, reported,
                   creators, mkdirs, result, pathVars, decVars>>

\* variant of RunTexts without the ? on convert_graphics: the text job is
\* started whatever the graphics job returned
RunTextsAlways ==
    /\ pc = "gfx"
    /\ phase["gfx"] = "returned"
    /\ pc' = "txt"
    /\ runLog' = Append(runLog, "Converting texts ...")
    /\ phase' = [phase EXCEPT !["txt"] = "read_dir"]
    /\ UNCHANGED <<windows, runResult, inDir, outDir, outFiles, pos,
                   files_to_convert, wpc, wdata, invoked, progress, reported,
                   creators, mkdirs, result, pathVars, decVars>>

\* run: convert_graphics(root_dir)? and, when it was Ok, convert_texts
RunTexts ==
    /\ pc = "gfx"
    /\ phase["gfx"] = "returned"
    /\ IF result["gfx"] = "Err"
       THEN /\ pc' = "done"
            /\ runResult' = "Err"
            /\ UNCHANGED <<runLog, phase>>
       ELSE /\ pc' = "txt"
            /\ runLog' = Append(runLog, "Converting texts ...")
            /\ phase' = [phase EXCEPT !["txt"] = "read_dir"]
            /\ UNCHANGED runResult
    /\ UNCHANGED <<windows, inDir, outDir, outFiles, pos, files_to_convert,
                   wpc, wdata, invoked, progress, reported, creators, mkdirs,
                   result, pathVars, decVars>>

\* run: convert_texts(root_dir)? and Ok(())
RunReturn ==
    /\ pc = "txt"
    /\ phase["txt"] = "returned"
    /\ pc' = "done"
    /\ runResult' = result["txt"]
    /\ UNCHANGED <<windows, runLog, inDir, outDir, outFiles, phase, pos,
                   files_to_convert, wpc, wdata, invoked, progress, reported,
                   creators, mkdirs, result, pathVars, decVars>>

\* convert_dir: read_dir(&input_path)?, on the directories the job finds
ReadDir(j) ==
    /\ phase[j] = "read_dir"
    /\ \E d \in InputDirs(j), o \in OutputDirs :
        /\ inDir' = [inDir EXCEPT ![j] = d]
        /\ outDir' = [outDir EXCEPT ![j] = o]
        /\ outFiles' = [outFiles EXCEPT ![j] = FilesOf(j, o)]
        /\ IF d.exists
           THEN /\ phase' = [phase EXCEPT ![j] = "mkdir"]
                /\ UNCHANGED result
           ELSE /\ phase' = [phase EXCEPT ![j] = "returned"]
                /\ result' = [result EXCEPT ![j] = "Err"]
    /\ UNCHANGED <<windows, pc, runResult, runLog, pos, files_to_convert, wpc,
                   wdata, invoked, progress, reported, creators, mkdirs,
                   pathVars, decVars>>

\* variant of MkDir with a ? on the creation: convert_dir returns Err when
\* the directory exists already or cannot be created
MkDirFatal(j) ==
    /\ phase[j] = "mkdir"
    /\ mkdirs' = [mkdirs EXCEPT ![j] = @ + 1]
    /\ outDir' = [outDir EXCEPT ![j] = IF @ = "absent" THEN "present" ELSE @]
    /\ IF outDir[j] = "absent"
       THEN /\ phase' = [phase EXCEPT ![j] = "scan"]
            /\ UNCHANGED result
       ELSE /\ phase' = [phase EXCEPT ![j] = "returned"]
            /\ result' = [result EXCEPT ![j] = "Err"]
    /\ UNCHANGED <<windows, pc, runResult, runLog, inDir, outFiles, pos,
                   files_to_convert, wpc, wdata, invoked, progress, reported,
                   creators, pathVars, decVars>>

\* convert_dir: let _ = DirBuilder::new().create(&output_path)
MkDir(j) ==
    /\ phase[j] = "mkdir"
    /\ mkdirs' = [mkdirs EXCEPT ![j] = @ + 1]
    /\ outDir' = [outDir EXCEPT ![j] = IF @ = "absent" THEN "present" ELSE @]
    /\ phase' = [phase EXCEPT ![j] = "scan"]
    /\ UNCHANGED <<windows, pc, runResult, runLog, inDir, outFiles, pos,
                   files_to_convert, wpc, wdata, invoked, progress, reported,
                   creators, result, pathVars, decVars>>

\* variant of ScanEntry that prints the progress line of a matching file
\* inside the loop over dir_reader, as a convert_dir that converts while it
\* enumerates does
ScanEntryConverting(j) ==
    /\ phase[j] = "scan"
    /\ pos[j] <= Len(inDir[j].entries)
    /\ LET entry == inDir[j].entries[pos[j]]
           input_filename == push(Job(j).input_path, entry.name)
           output_filename == to_output_filename(input_filename,
                                  Job(j).output_path, Job(j).output_extension)
       IN  IF entry.kind = "err"
           THEN /\ phase' = [phase EXCEPT ![j] = "returned"]
                /\ result' = [result EXCEPT ![j] = "Err"]
                /\ UNCHANGED <<pos, files_to_convert, progress>>
           ELSE IF is_file_with_extension(input_filename, entry.kind,
                                          Job(j).input_extension)
                   /\ output_filename.ok
           THEN /\ files_to_convert' =
                     [files_to_convert EXCEPT ![j] =
                         Append(@, [input |-> input_filename,
                                    output |-> output_filename.val])]
                /\ pos' = [pos EXCEPT ![j] = @ + 1]
                /\ progress' = [progress EXCEPT ![j] = @ + 1]
                /\ UNCHANGED <<phase, result>>
           ELSE /\ pos' = [pos EXCEPT ![j] = @ + 1]
                /\ UNCHANGED <<phase, result, files_to_convert, progress>>
    /\ UNCHANGED <<windows, pc, runResult, runLog, inDir, outDir, outFiles,
                   wpc, wdata, invoked, reported, creators, mkdirs,
                   pathVars, decVars>>

\* convert_dir: one round of the loop over dir_reader
ScanEntry(j) ==
    /\ phase[j] = "scan"
    /\ pos[j] <= Len(inDir[j].entries)
    /\ LET entry == inDir[j].entries[pos[j]]
           input_filename == push(Job(j).input_path, entry.name)
           output_filename == to_output_filename(input_filename,
                                  Job(j).output_path, Job(j).output_extension)
       IN  IF entry.kind = "err"
           THEN /\ phase' = [phase EXCEPT ![j] = "returned"]
                /\ result' = [result EXCEPT ![j] = "Err"]
                /\ UNCHANGED <<pos, files_to_convert>>
           ELSE IF is_file_with_extension(input_filename, entry.kind,
                                          Job(j).input_extension)
           THEN IF output_filename.ok
                THEN /\ files_to_convert' =
                          [files_to_convert EXCEPT ![j] =
                              Append(@, [input |-> input_filename,
                                         output |-> output_filename.val])]
                     /\ pos' = [pos EXCEPT ![j] = @ + 1]
                     /\ UNCHANGED <<phase, result>>
                ELSE /\ phase' = [phase EXCEPT ![j] = "returned"]
                     /\ result' = [result EXCEPT ![j] = "Err"]
                     /\ UNCHANGED <<pos, files_to_convert>>
           ELSE /\ pos' = [pos EXCEPT ![j] = @ + 1]
                /\ UNCHANGED <<phase, result, files_to_convert>>
    /\ UNCHANGED <<windows, pc, runResult, runLog, inDir, outDir, outFiles,
                   wpc, wdata, invoked, progress, reported, creators, mkdirs,
                   pathVars, decVars>>

\* convert_dir: files_to_convert.par_iter().for_each(..) hands every pair
\* to the thread pool
StartPar(j) ==
    /\ phase[j] = "scan"
    /\ pos[j] > Len(inDir[j].entries)
    /\ phase' = [phase EXCEPT ![j] = "par"]
    /\ wpc' = [wpc EXCEPT ![j] = [i \in 1..Len(files_to_convert[j]) |-> "todo"]]
    /\ wdata' = [wdata EXCEPT ![j] = [i \in 1..Len(files_to_convert[j]) |-> <<>>]]
    /\ invoked' = [invoked EXCEPT ![j] = [i \in 1..Len(files_to_convert[j]) |-> 0]]
    /\ UNCHANGED <<windows, pc, runResult, runLog, inDir, outDir, outFiles,
                   pos, files_to_convert, progress, reported, creators, mkdirs,
                   result, pathVars, decVars>>

\* the positions of a conversion that has returned: Ok, or the Err of its
\* decoding, of create_output_file, of the write
Outcomes == {"ok", "decode_err", "create_err", "write_err"}

\* variant of WorkerStart whose conversion creates its output file before
\* it reads and decodes its input
WorkerStartCreatingFirst(j, i) ==
    /\ i \in DOMAIN wpc[j]
    /\ wpc[j][i] = "todo"
    /\ progress' = [progress EXCEPT ![j] = @ + 1]
    /\ invoked' = [invoked EXCEPT ![j][i] = @ + 1]
    /\ outFiles' = [outFiles EXCEPT ![j] =
            IF outDir[j] = "present"
            THEN (files_to_convert[j][i].output :>
                    [by |-> i, data |-> <<>>, complete |-> FALSE]) @@ @
            ELSE @]
    /\ \E content \in Contents(j) :
        LET r == conversion_decode(j, content)
        IN  IF r.ok
            THEN /\ wpc' = [wpc EXCEPT ![j][i] = "decoded"]
                 /\ wdata' = [wdata EXCEPT ![j][i] = r.val]
                 /\ UNCHANGED reported
            ELSE /\ wpc' = [wpc EXCEPT ![j][i] = "decode_err"]
                 /\ reported' = [reported EXCEPT ![j] = @ \cup {i}]
                 /\ UNCHANGED wdata
    /\ UNCHANGED <<windows, pc, runResult, runLog, inDir, outDir, phase, pos,
                   files_to_convert, creators, mkdirs, result, pathVars,
                   decVars>>

\* the closure of for_each on pair i: the progress line, the call of
\* conversion_fn, and the conversion up to its decoded contents; a failure
\* is printed
WorkerStart(j, i) ==
    /\ i \in DOMAIN wpc[j]
    /\ wpc[j][i] = "todo"
    /\ progress' = [progress EXCEPT ![j] = @ + 1]
    /\ invoked' = [invoked EXCEPT ![j][i] = @ + 1]
    /\ \E content \in Contents(j) :
        LET r == conversion_decode(j, content)
        IN  IF r.ok
            THEN /\ wpc' = [wpc EXCEPT ![j][i] = "decoded"]
                 /\ wdata' = [wdata EXCEPT ![j][i] = r.val]
                 /\ UNCHANGED reported
            ELSE /\ wpc' = [wpc EXCEPT ![j][i] = "decode_err"]
                 /\ reported' = [reported EXCEPT ![j] = @ \cup {i}]
                 /\ UNCHANGED wdata
    /\ UNCHANGED <<windows, pc, runResult, runLog, inDir, outDir, outFiles,
                   phase, pos, files_to_convert, creators, mkdirs, result,
                   pathVars, decVars>>

\* the conversion of pair i: create_output_file(output_filename)?
WorkerCreate(j, i) ==
    /\ i \in DOMAIN wpc[j]
    /\ wpc[j][i] = "decoded"
    /\ LET path == files_to_convert[j][i].output
       IN  IF outDir[j] = "present"
           THEN /\ outFiles' = [outFiles EXCEPT ![j] =
                       (path :> [by |-> i, data |-> <<>>, complete |-> FALSE]) @@ @]
                /\ creators' = [creators EXCEPT ![j] =
                       (path :> ((IF path \in DOMAIN @ THEN @[path] ELSE {})
                                 \cup {i})) @@ @]
                /\ wpc' = [wpc EXCEPT ![j][i] = "created"]
                /\ UNCHANGED reported
           ELSE /\ wpc' = [wpc EXCEPT ![j][i] = "create_err"]
                /\ reported' = [reported EXCEPT ![j] = @ \cup {i}]
                /\ UNCHANGED <<outFiles, creators>>
    /\ UNCHANGED <<windows, pc, runResult, runLog, inDir, outDir, phase, pos,
                   files_to_convert, wdata, invoked, progress, mkdirs, result,
                   pathVars, decVars>>

\* the conversion of pair i: the write of the converted contents, which
\* the file system may refuse
WorkerWrite(j, i) ==
    /\ i \in DOMAIN wpc[j]
    /\ wpc[j][i] = "created"
    /\ LET path == files_to_convert[j][i].output
       IN  \E written \in BOOLEAN :
            IF written
            THEN /\ outFiles' = [outFiles EXCEPT ![j] =
                        (path :> [by |-> i, data |-> wdata[j][i],
                                  complete |-> TRUE]) @@ @]
                 /\ wpc' = [wpc EXCEPT ![j][i] = "ok"]
                 /\ UNCHANGED reported
            ELSE /\ wpc' = [wpc EXCEPT ![j][i] = "write_err"]
                 /\ reported' = [reported EXCEPT ![j] = @ \cup {i}]
                 /\ UNCHANGED outFiles
    /\ UNCHANGED <<windows, pc, runResult, runLog, inDir, outDir, phase, pos,
                   files_to_convert, wdata, invoked, progress, creators,
                   mkdirs, result, pathVars, decVars>>

\* variant of AllDone: for_each returns as soon as one pair has reached its
\* outcome
AllDoneAny(j) ==
    \/ wpc[j] = <<>>
    \/ \E i \in DOMAIN wpc[j] : wpc[j][i] \in Outcomes

\* whether for_each may return: every pair has reached its outcome
AllDone(j) == \A i \in DOMAIN wpc[j] : wpc[j][i] \in Outcomes

\* variant of JoinPar that escalates: convert_dir returns Err when the
\* conversion of some pair has failed
JoinParEscalating(j) ==
    /\ phase[j] = "par"
    /\ AllDone(j)
    /\ phase' = [phase EXCEPT ![j] = "returned"]
    /\ result' = [result EXCEPT ![j] = IF reported[j] = {} THEN "Ok" ELSE "Err"]
    /\ UNCHANGED <<windows, pc, runResult, runLog, inDir, outDir, outFiles,
                   pos, files_to_convert, wpc, wdata, invoked, progress,
                   reported, creators, mkdirs, pathVars, decVars>>

\* convert_dir: for_each returns, then Ok(())
JoinPar(j) ==
    /\ phase[j] = "par"
    /\ AllDone(j)
    /\ phase' = [phase EXCEPT ![j] = "returned"]
    /\ result' = [result EXCEPT ![j] = "Ok"]
    /\ UNCHANGED <<windows, pc, runResult, runLog, inDir, outDir, outFiles,
                   pos, files_to_convert, wpc, wdata, invoked, progress,
                   reported, creators, mkdirs, pathVars, decVars>>

Next ==
    \/ RunGraphics
    \/ RunTexts
    \/ RunReturn
    \/ \E j \in Jobs : ReadDir(j)
    \/ \E j \in Jobs : MkDir(j)
    \/ \E j \in Jobs : ScanEntry(j)
    \/ \E j \in Jobs : StartPar(j)
    \/ \E j \in Jobs, i \in 1..(MaxEntries + 1) : WorkerStart(j, i)
    \/ \E j \in Jobs, i \in 1..(MaxEntries + 1) : WorkerCreate(j, i)
    \/ \E j \in Jobs, i \in 1..(MaxEntries + 1) : WorkerWrite(j, i)
    \/ \E j \in Jobs : JoinPar(j)

Spec == Init /\ [][Next]_vars

----------------------------------------------------------------------------
(* The path specification: to_output_filename on the paths of a bounded set *)

PathChars == {"A", ".", "x"}

\* the file names of at most MaxNameLen characters
Names == UNION { [1..n -> PathChars] : n \in 1..MaxNameLen }

\* the directories an input path lies in
PathDirs == { <<>>, <<CurDir, GFX_INPUT_DIR>>, <<RootDir>>, <<ParentDir>> }

\* the input paths: a directory, or a name pushed on a directory
PathInputs == PathDirs \cup { push(d, n) : d \in PathDirs, n \in Names }

InitPath ==
    /\ windows = FALSE
    /\ RunIdle
    /\ p_in \in PathInputs
    /\ p_out \in {convert_graphics.output_path, convert_texts.output_path}
    /\ p_ext \in {PNG, TXT}
    /\ p_res = Err(<<>>)
    /\ p_done = FALSE
    /\ d_in = <<>> /\ d_lib = Err(<<>>) /\ d_main = Err(<<>>) /\ d_done = {}

\* a call of to_output_filename
ToOutputFilename ==
    /\ ~p_done
    /\ p_res' = to_output_filename(p_in, p_out, p_ext)
    /\ p_done' = TRUE
    /\ UNCHANGED <<windows, runVars, p_in, p_out, p_ext, decVars>>

NextPath == ToOutputFilename

SpecPath == InitPath /\ [][NextPath]_vars

----------------------------------------------------------------------------
(* The decoder specification: both convert_txt on the byte sequences of a  *)
(* bounded set                                                             *)

\* the bytes of the prefix of an input: every arm of the match and the
\* neighbours of its ranges
SampleBytes == {9, 10, 11, 136, 137, 138, 139, 235, 255}

Bytes == 0..255

\* the inputs: a prefix of sample bytes, then nothing or any one byte
DecInputs ==
    { s \o t :
        s \in UNION { [1..n -> SampleBytes] : n \in 0..MaxTxtLen },
        t \in {<<>>} \cup { <<b>> : b \in Bytes } }

InitDec ==
    /\ windows \in BOOLEAN
    /\ RunIdle
    /\ p_in = <<>> /\ p_out = <<>> /\ p_ext = <<>>
    /\ p_res = Err(<<>>) /\ p_done = FALSE
    /\ d_in \in DecInputs
    /\ d_lib = Err(<<>>)
    /\ d_main = Err(<<>>)
    /\ d_done = {}

\* lib.rs convert_txt decodes the input
DecodeLib ==
    /\ "lib" \notin d_done
    /\ d_lib' = decode_txt(d_in, windows)
    /\ d_done' = d_done \cup {"lib"}
    /\ UNCHANGED <<windows, runVars, pathVars, d_in, d_main>>

\* main.rs convert_txt decodes the input
DecodeMain ==
    /\ "main" \notin d_done
    /\ d_main' = decode_txt_main(d_in, windows)
    /\ d_done' = d_done \cup {"main"}
    /\ UNCHANGED <<windows, runVars, pathVars, d_in, d_lib>>

NextDec == DecodeLib \/ DecodeMain

SpecDec == InitDec /\ [][NextDec]_vars

----------------------------------------------------------------------------
(* Properties of the run specification *)

\* the scan of job j has read every entry and paired every matching file
ScanSucceeded(j) ==
    /\ inDir[j].exists
    /\ pos[j] > Len(inDir[j].entries)
    /\ phase[j] \in {"par", "returned"}

Failures == {"decode_err", "create_err", "write_err"}

\* C1: once the directory scan and every pairing of a job have succeeded,
\* conversion_fn is called at most once per pair at any time and exactly
\* once per pair by the time convert_dir returns, every pair has then
\* reached its outcome, every failed pair was reported, and convert_dir
\* returns Ok, whatever subset of the conversions failed.
C1_EveryPairConvertedOnce ==
    \A j \in Jobs :
        ScanSucceeded(j) =>
            /\ result[j] # "Err"
            /\ DOMAIN invoked[j] = 1..Len(files_to_convert[j])
            /\ \A i \in DOMAIN invoked[j] :
                /\ invoked[j][i] <= 1
                /\ (wpc[j][i] \in Failures) = (i \in reported[j])
            /\ phase[j] = "returned" =>
                /\ result[j] = "Ok"
                /\ \A i \in 1..Len(files_to_convert[j]) :
                    /\ invoked[j][i] = 1
                    /\ wpc[j][i] \in Outcomes

\* C1 witness: a job of two pairs has returned Ok though both conversions
\* failed
C1_Witness ==
    /\ result["gfx"] = "Ok"
    /\ Len(files_to_convert["gfx"]) = 2
    /\ \A i \in 1..2 : wpc["gfx"][i] \in Failures /\ invoked["gfx"][i] = 1

\* C2: when convert_dir has returned Err, the job has printed no progress
\* line and called conversion_fn for no file, also not for the files it had
\* paired before the failing entry; and when read_dir itself failed, the
\* output directory was not created.
C2_ErrMeansNoWork ==
    \A j \in Jobs :
        result[j] = "Err" =>
            /\ progress[j] = 0
            /\ invoked[j] = <<>>
            /\ wpc[j] = <<>>
            /\ reported[j] = {}
            /\ creators[j] = [p \in {} |-> {}]
            /\ ~inDir[j].exists =>
                /\ mkdirs[j] = 0
                /\ outFiles[j] = FilesOf(j, outDir[j])

\* C2 witness: convert_dir returned Err on an unreadable entry after it had
\* paired a file
C2_Witness ==
    /\ result["gfx"] = "Err"
    /\ inDir["gfx"].exists
    /\ Len(files_to_convert["gfx"]) >= 1

\* the conversions of job j have all reached their outcome
Finished(j) ==
    /\ DOMAIN wpc[j] = 1..Len(files_to_convert[j])
    /\ \A i \in DOMAIN wpc[j] : wpc[j][i] \in Outcomes

\* C3: the jobs never overlap: the text job has taken no step before
\* convert_graphics has returned, convert_graphics has returned Ok only
\* with every pair at its outcome, and no graphics conversion is under way
\* once the text job has begun.
C3_JobsNeverOverlap ==
    /\ phase["txt"] # "idle" =>
        /\ phase["gfx"] = "returned"
        /\ result["gfx"] = "Ok"
        /\ Finished("gfx")
    /\ phase["gfx"] # "returned" =>
        /\ inDir["txt"] = [exists |-> FALSE, entries |-> <<>>]
        /\ mkdirs["txt"] = 0
        /\ progress["txt"] = 0
        /\ wpc["txt"] = <<>>
    /\ (phase["gfx"] = "returned" /\ result["gfx"] = "Ok") => Finished("gfx")

\* C3 witness: a text conversion is under way after a graphics job of two
\* pairs
C3_Witness ==
    /\ phase["txt"] = "par"
    /\ \E i \in DOMAIN wpc["txt"] : wpc["txt"][i] = "created"
    /\ Len(files_to_convert["gfx"]) = 2

Sharing(j, i) ==
    { k \in 1..Len(files_to_convert[j]) :
        k # i /\ files_to_convert[j][k].output = files_to_convert[j][i].output }

\* C6: a conversion that failed while reading or decoding its input has
\* not touched its output path: it is none of the creators of that path,
\* the file there is not its own, and unless a conversion of another pair
\* with that output path created it, the path holds no file or the
\* unchanged file of an earlier run.
C6_DecodeFailureLeavesOutput ==
    \A j \in Jobs : \A i \in DOMAIN wpc[j] :
        wpc[j][i] \in {"todo", "decode_err"} =>
            LET path == files_to_convert[j][i].output
            IN  /\ path \in DOMAIN creators[j] => i \notin creators[j][path]
                /\ path \in DOMAIN outFiles[j] => outFiles[j][path].by # i
                /\ (\A k \in Sharing(j, i) :
                        wpc[j][k] \in {"todo", "decode_err", "decoded", "create_err"})
                    => /\ path \notin DOMAIN creators[j]
                       /\ path \in DOMAIN outFiles[j]
                            => outFiles[j][path] = OldFile

\* C6 witness: a graphics conversion and a text conversion have failed in
\* decoding, the text one with a file of an earlier run at its output path
C6_Witness ==
    /\ \E i \in DOMAIN wpc["gfx"] : wpc["gfx"][i] = "decode_err"
    /\ \E i \in DOMAIN wpc["txt"] :
        /\ wpc["txt"][i] = "decode_err"
        /\ files_to_convert["txt"][i].output \in DOMAIN outFiles["txt"]
        /\ outFiles["txt"][files_to_convert["txt"][i].output] = OldFile

\* a name ends in "." and a spelling of the extension ext, after a stem
HasExtension(name, ext) ==
    /\ Len(name) >= Len(ext) + 2
    /\ name[Len(name) - Len(ext)] = "."
    /\ to_uppercase(SubSeq(name, Len(name) - Len(ext) + 1, Len(name))) = ext

\* the entries among the first n of the listing of job j that are regular
\* files with the job's input extension
Matching(j, n) ==
    { k \in 1..n :
        /\ inDir[j].entries[k].kind = "file"
        /\ HasExtension(inDir[j].entries[k].name, Job(j).input_extension) }

C10_DistinctOutputs ==
    \A j \in Jobs :
        /\ \A i, k \in 1..Len(files_to_convert[j]) :
            i # k => files_to_convert[j][i].output # files_to_convert[j][k].output
        /\ \A path \in DOMAIN creators[j] : Cardinality(creators[j][path]) <= 1

\* the output directory of job j in every state: created at most once,
\* only after read_dir succeeded and before the scan and any conversion;
\* a creation that failed leaves the job running, convert_dir returns Ok,
\* and with no output directory every conversion ends in a reported
\* failure and no file
C11_DirState ==
    \A j \in Jobs :
        /\ mkdirs[j] <= 1
        /\ mkdirs[j] = 1 => inDir[j].exists
        /\ (phase[j] \in {"scan", "par"} \/ wpc[j] # <<>> \/ progress[j] > 0
            \/ result[j] = "Ok") => mkdirs[j] = 1
        /\ (mkdirs[j] = 1 /\ inDir[j].exists
            /\ \A k \in 1..Len(inDir[j].entries) : inDir[j].entries[k].kind # "err")
            => result[j] # "Err"
        /\ (mkdirs[j] = 1 /\ outDir[j] = "blocked") =>
            /\ outFiles[j] = NoFiles
            /\ \A i \in DOMAIN wpc[j] :
                /\ wpc[j][i] \in {"todo", "decoded", "decode_err", "create_err"}
                /\ wpc[j][i] = "create_err" => i \in reported[j]

\* the steps after the creation leave the output directory alone: during
\* the scan, the conversions and after the return no step calls
\* DirBuilder::create or changes whether the directory exists
C11_NoLaterCreation ==
    \A j \in Jobs :
        phase[j] \in {"scan", "par", "returned"} =>
            /\ mkdirs'[j] = mkdirs[j]
            /\ outDir'[j] = outDir[j]

\* C11: the output directory is created at most once per job, by
\* convert_dir itself before any conversion starts and only after the input
\* directory was read; no conversion creates it; and a creation that fails
\* (the directory exists, or cannot be created) never fails the job, which
\* goes on to the conversions, where a missing output directory shows only
\* as reported failures of the files.
C11_DirCreatedOnceAndTolerated ==
    []C11_DirState /\ [][C11_NoLaterCreation]_vars

\* C11 witness: the creation of the output directory failed, a decoded
\* file then failed at create_output_file and was reported, and convert_dir
\* returned Ok
C11_Witness ==
    /\ result["gfx"] = "Ok"
    /\ mkdirs["gfx"] = 1
    /\ outDir["gfx"] = "blocked"
    /\ \E i \in DOMAIN wpc["gfx"] :
        wpc["gfx"][i] = "create_err" /\ i \in reported["gfx"]

----------------------------------------------------------------------------
(* Properties of the path specification *)

\* Path::parent of a path with a file name
parent(path) == SubSeq(path, 1, Len(path) - 1)

\* C7: for an input path with a file name to_output_filename returns a path
\* whose parent is the output directory, whose extension is the target
\* extension and whose stem is the stem of the input path; for an input
\* path without a file name it fails.
C7_OutputKeepsStem ==
    p_done =>
        IF file_name(p_in) # None
        THEN /\ p_res.ok
             /\ file_name(p_res.val) # None
             /\ parent(p_res.val) = p_out
             /\ extension(p_res.val) = Some(p_ext)
             /\ file_stem(p_res.val) = file_stem(p_in)
        ELSE ~p_res.ok

----------------------------------------------------------------------------
(* Properties of the decoder specification *)

\* the bytes of the table of the codepage
LegalBytes == {10} \cup (11..136) \cup {139, 142, 152, 158, 163, 164, 183, 235}

\* the table of the codepage: the characters of a legal byte
Glyph(b, win) ==
    IF b = 10 THEN (IF win THEN <<13, 10>> ELSE <<10>>)
    ELSE IF b = 139 THEN <<252>>
    ELSE IF b = 142 THEN <<228>>
    ELSE IF b = 152 THEN <<196>>
    ELSE IF b = 158 THEN <<246>>
    ELSE IF b = 163 THEN <<214>>
    ELSE IF b = 164 THEN <<220>>
    ELSE IF b = 183 THEN <<244>>
    ELSE IF b = 235 THEN <<223>>
    ELSE <<b - 10>>

\* the glyphs of the first n bytes of a sequence of legal bytes, in order
RECURSIVE Glyphs(_, _, _)
Glyphs(bytes, n, win) ==
    IF n = 0 THEN <<>>
    ELSE Glyphs(bytes, n - 1, win) \o Glyph(bytes[n], win)

\* the index of the first byte outside the table
FirstIllegal(bytes) ==
    CHOOSE i \in 1..Len(bytes) :
        /\ bytes[i] \notin LegalBytes
        /\ \A k \in 1..(i - 1) : bytes[k] \in LegalBytes

\* C5: lib.rs convert_txt decodes to the BOM followed, byte by byte and in
\* order, by the glyphs of the table, it succeeds iff every byte is in the
\* table, and on any other byte it fails reporting that byte.
C5_DecodeMatchesTable ==
    "lib" \in d_done =>
        IF \A i \in 1..Len(d_in) : d_in[i] \in LegalBytes
        THEN /\ d_lib.ok
             /\ d_lib.val = <<BOM>> \o Glyphs(d_in, Len(d_in), windows)
        ELSE /\ ~d_lib.ok
             /\ d_lib.val = <<d_in[FirstIllegal(d_in)]>>

\* C5 witness: an input of legal bytes followed by one byte outside the
\* table has been rejected
C5_Witness ==
    /\ "lib" \in d_done
    /\ Len(d_in) = 3
    /\ d_in[1] = 136 /\ d_in[2] = 10 /\ d_in[3] = 137
    /\ ~d_lib.ok

\* C9: the two decoders agree on every input: the same result, Ok with the
\* same string or Err on the same byte.
C9_DecodersAgree ==
    d_done = {"lib", "main"} => d_lib = d_main

====
